---- MODULE Spec2Model ----
(***************************************************************************)
(* Shipment tracking / cold-chain service (src/app.py).                    *)
(*                                                                         *)
(* The database tables are sequences of rows (a row's id is its position:  *)
(* ids are autoincremented and no route deletes).  Optional values (Python *)
(* None / SQL NULL) are sequences of length <= 1: None is <<>> and a       *)
(* present value x is <<x>>.  Strings that the code parses or formats      *)
(* (Config values, timestamps) are sequences of one-character strings, so  *)
(* that str(), float(), rstrip("Z") and fromisoformat() are computed, not  *)
(* assumed.  Temperatures are floats with one decimal digit, held as a     *)
(* whole number of tenths of a degree (1.5 is 15).  Instants are naturals. *)
(***************************************************************************)
EXTENDS Integers, Sequences, FiniteSets, TLC

VARIABLES
    shipments,      \* table "shipments"
    statusHistory,  \* table "status_history"
    sensorData,     \* table "sensor_data"
    alerts,         \* table "temperature_alerts"
    config,         \* table "config": key -> optional string value
    now,            \* what datetime.utcnow() returns
    resp,           \* the last request served and the response it got
    pc,             \* concurrent requests: where each worker is in its handler
    loc             \* concurrent requests: each worker's local variables

vars == <<shipments, statusHistory, sensorData, alerts, config, now, resp, pc, loc>>
db == <<shipments, statusHistory, sensorData, alerts, config>>

\* ----------------------------------------------------------------- bounds
MaxClock == 2
MaxStatusRows == 2
MaxSensorRows == 2

\* ------------------------------------------------------- optional values
None == <<>>
Some(x) == <<x>>
IsNone(o) == o = <<>>
Val(o) == o[1]

\* ---------------------------------------------- Python str() and float()
DigitChar == <<"0", "1", "2", "3", "4", "5", "6", "7", "8", "9">>
IsDigit(c) == \E i \in 1..10 : DigitChar[i] = c
DigitVal(c) == (CHOOSE i \in 1..10 : DigitChar[i] = c) - 1

RECURSIVE NatChars(_)
NatChars(n) ==
    IF n < 10 THEN <<DigitChar[n + 1]>>
    ELSE NatChars(n \div 10) \o <<DigitChar[(n % 10) + 1]>>

Abs(n) == IF n < 0 THEN -n ELSE n
SignChars(n) == IF n < 0 THEN <<"-">> ELSE <<>>

\* JSON values of a request body: an int n, a float of f tenths, null, or a
\* string s.
JInt(n) == [k |-> "int", n |-> n, s |-> <<>>]
JFloat(f) == [k |-> "float", n |-> f, s |-> <<>>]
JNull == [k |-> "null", n |-> 0, s |-> <<>>]
JStr(s) == [k |-> "str", n |-> 0, s |-> s]

\* str(v) for a value decoded from JSON: str(-5) = "-5", str(2.0) = "2.0",
\* str(1.5) = "1.5", str(None) = "None", str("abc") = "abc".
PyStr(j) ==
    CASE j.k = "int" -> SignChars(j.n) \o NatChars(Abs(j.n))
      [] j.k = "float" ->
            SignChars(j.n) \o NatChars(Abs(j.n) \div 10)
                \o <<".", DigitChar[(Abs(j.n) % 10) + 1]>>
      [] j.k = "null" -> <<"N", "o", "n", "e">>
      [] OTHER -> j.s

RECURSIVE DigitsVal(_)
DigitsVal(s) ==
    IF Len(s) = 0 THEN 0
    ELSE 10 * DigitsVal(SubSeq(s, 1, Len(s) - 1)) + DigitVal(s[Len(s)])

AllDigits(s) == \A i \in 1..Len(s) : IsDigit(s[i])
DotAt(s) == IF \E i \in 1..Len(s) : s[i] = "."
            THEN CHOOSE i \in 1..Len(s) : s[i] = "." /\ \A j \in 1..(i - 1) : s[j] # "."
            ELSE 0

\* float(s) on a decimal literal [sign] digits ["." digit]: the value in
\* tenths, or a ValueError (ok = FALSE) for anything that is no number
\* ("None", "abc", "").  Literals with more than one fractional digit are
\* not representable in tenths and are never produced by the inputs below.
PyFloatUnsigned(s) ==
    LET d == DotAt(s) IN
    IF d = 0
    THEN IF Len(s) > 0 /\ AllDigits(s)
         THEN [ok |-> TRUE, v |-> 10 * DigitsVal(s)]
         ELSE [ok |-> FALSE, v |-> 0]
    ELSE LET ip == SubSeq(s, 1, d - 1)
             fp == SubSeq(s, d + 1, Len(s))
         IN  IF Len(ip) > 0 /\ AllDigits(ip) /\ AllDigits(fp) /\ Len(fp) <= 1
             THEN [ok |-> TRUE,
                   v |-> 10 * DigitsVal(ip) + (IF Len(fp) = 1 THEN DigitVal(fp[1]) ELSE 0)]
             ELSE [ok |-> FALSE, v |-> 0]

PyFloat(s) ==
    IF Len(s) > 0 /\ s[1] = "-"
    THEN LET r == PyFloatUnsigned(Tail(s)) IN [ok |-> r.ok, v |-> -r.v]
    ELSE IF Len(s) > 0 /\ s[1] = "+" THEN PyFloatUnsigned(Tail(s))
    ELSE PyFloatUnsigned(s)

\* ------------------------------------------------------------ timestamps
\* An ISO-8601 timestamp is abstracted to one digit naming the instant,
\* optionally followed by "Z" characters: "2" and "2Z" both name instant 2.
RECURSIVE RStripZ(_)
RStripZ(s) ==
    IF Len(s) > 0 /\ s[Len(s)] = "Z" THEN RStripZ(SubSeq(s, 1, Len(s) - 1)) ELSE s

\* datetime.fromisoformat(s): the instant, or a ValueError (ok = FALSE).
FromIsoFormat(s) ==
    IF Len(s) = 1 /\ IsDigit(s[1])
    THEN [ok |-> TRUE, v |-> DigitVal(s[1])]
    ELSE [ok |-> FALSE, v |-> 0]

\* ---------------------------------------------------------------- inputs
TrackingNumbers == {"TN1", "TN2"}

\* status strings: plain text, or text that embeds a temperature (f-string)
Status(text) == [text |-> text, temp |-> None]
StatusT(text, t) == [text |-> text, temp |-> Some(t)]

\* Bodies of PUT /config/temperature-range: has_min / has_max say whether the
\* key is in the body, min / max are the JSON values given.
PutBody(hmin, vmin, hmax, vmax) ==
    [has_min |-> hmin, min |-> vmin, has_max |-> hmax, max |-> vmax]
PutBodies ==
    { PutBody(TRUE, JFloat(20), TRUE, JFloat(80)),
      PutBody(TRUE, JInt(-5), TRUE, JInt(10)),
      PutBody(TRUE, JNull, TRUE, JFloat(80)),
      PutBody(TRUE, JFloat(20), FALSE, JNull) }

\* Bodies of POST /shipments.
ShipmentBody(has, tn) ==
    [has_tn |-> has, tracking_number |-> tn, origin |-> "Austin",
     destination |-> "Boston", current_status |-> "Created"]
ShipmentBodies ==
    {ShipmentBody(TRUE, tn) : tn \in TrackingNumbers} \cup {ShipmentBody(FALSE, "TN1")}

\* Bodies of POST /shipments/{tn}/status.
StatusBody(has, ts) ==
    [has_status |-> has, status |-> Status("Delivered"), location |-> Some("Boston"),
     timestamp |-> ts]

\* Bodies of POST /shipments/{tn}/sensor; temperature None is JSON null.
SensorBody(has, t, ts) ==
    [has_temperature |-> has, temperature |-> t, timestamp |-> ts,
     humidity |-> None, location |-> None]
SensorBodies ==
    { SensorBody(TRUE, Some(15), <<>>), SensorBody(TRUE, Some(95), <<"1">>),
      SensorBody(TRUE, Some(20), <<>>), SensorBody(TRUE, None, <<>>), SensorBody(TRUE, Some(15), <<"x">>),
      SensorBody(FALSE, None, <<>>) }
SensorRequests == {"TN1"} \X SensorBodies

\* What the tracking provider may answer: scan events {status,
\* scanLocation.city, dateScan}.
ScanEvent(st, city, ds) == [status |-> Status(st), city |-> city, dateScan |-> ds]
EvPicked == ScanEvent("Picked up", None, <<"1", "Z">>)
EvPickedNoZ == ScanEvent("Picked up", None, <<"1">>)
EvNoDate == ScanEvent("In transit", None, <<>>)
EvBadDate == ScanEvent("Picked up", None, <<"x">>)

\* What the sensor provider may answer: reports {timestamp, location,
\* temperature, humidity}.
Report(ts, l, t, h) == [timestamp |-> ts, location |-> l, temperature |-> t, humidity |-> h]
RepLow == Report(<<"1", "Z">>, Some("Memphis"), Some(15), Some(400))
RepHighNulls == Report(<<"2">>, None, Some(95), None)
RepNoTs == Report(<<>>, None, Some(15), None)
RepNoTemp == Report(<<"1">>, None, None, None)
RepBadTs == Report(<<"x">>, None, Some(15), None)

\* Outcome of one call to an external provider: a 2xx answer, a non-2xx
\* answer (raise_for_status raises requests.HTTPError) or a network failure
\* (requests.post / requests.get raises requests.ConnectionError).
Outcomes == {"ok", "http_error", "network_error"}

\* Request-supplied temp_min / temp_max of POST /ingest (None: not supplied).
IngestMins == {None, Some(20)}
IngestMaxs == {None, Some(80)}

\* --------------------------------------------------------------- helpers
\* get_temp_range(): float() of each Config value that has a row; a value
\* that is no number raises ValueError.
get_temp_range(cfg) ==
    LET pmin == IF IsNone(cfg.min_temperature) THEN [ok |-> TRUE, v |-> 0]
                ELSE PyFloat(Val(cfg.min_temperature))
        pmax == IF IsNone(cfg.max_temperature) THEN [ok |-> TRUE, v |-> 0]
                ELSE PyFloat(Val(cfg.max_temperature))
    IN  [ok |-> pmin.ok /\ pmax.ok,
         min |-> IF IsNone(cfg.min_temperature) \/ ~pmin.ok THEN None ELSE Some(pmin.v),
         max |-> IF IsNone(cfg.max_temperature) \/ ~pmax.ok THEN None ELSE Some(pmax.v)]

\* The if / elif of create_temp_alert_if_needed: the alert type, or None.
AlertType(min_temp, max_temp, temperature) ==
    IF ~IsNone(min_temp) /\ temperature < Val(min_temp) THEN Some("below_min")
    ELSE IF ~IsNone(max_temp) /\ temperature > Val(max_temp) THEN Some("above_max")
    ELSE None

\* The if / elif of ingest_data's temperature alert check.
IngestAlertType(temp_min, temp_max, temperature) ==
    IF ~IsNone(temp_min) /\ temperature < Val(temp_min) THEN Some("below_min")
    ELSE IF ~IsNone(temp_max) /\ temperature > Val(temp_max) THEN Some("above_max")
    ELSE None

\* Shipment.query.filter_by(tracking_number=tn).first(): the id of the first
\* row with that tracking number, 0 when there is none.
FindShipment(tbl, tn) ==
    IF \E i \in 1..Len(tbl) : tbl[i].tracking_number = tn
    THEN CHOOSE i \in 1..Len(tbl) :
            /\ tbl[i].tracking_number = tn
            /\ \A j \in 1..(i - 1) : tbl[j].tracking_number # tn
    ELSE 0

InsertShipmentUnchecked(tbl, row) == [ok |-> TRUE, rows |-> Append(tbl, row)]

\* INSERT INTO shipments under the column's unique=True: an IntegrityError
\* (ok = FALSE) when a row with the tracking number is already there.
InsertShipment(tbl, row) ==
    IF \E i \in 1..Len(tbl) : tbl[i].tracking_number = row.tracking_number
    THEN [ok |-> FALSE, rows |-> tbl]
    ELSE [ok |-> TRUE, rows |-> Append(tbl, row)]

ShipmentRow(tn, o, d, st) ==
    [tracking_number |-> tn, origin |-> o, destination |-> d, current_status |-> st]
StatusRow(sid, st, l, ts) ==
    [shipment_id |-> sid, status |-> st, location |-> l, timestamp |-> ts]
SensorRow(sid, ts, t, h, l) ==
    [shipment_id |-> sid, timestamp |-> ts, temperature |-> t, humidity |-> h,
     location |-> l]
AlertRow(sid, ts, t, ty) ==
    [shipment_id |-> sid, timestamp |-> ts, temperature |-> t, alert_type |-> ty]

StatusExistsNullUnequal(rows, sid, st, l, ts) ==
    ~IsNone(l) /\ \E i \in 1..Len(rows) : rows[i] = StatusRow(sid, st, l, ts)

\* StatusHistory.query.filter_by(shipment_id, status, location, timestamp)
\* .first() is not None; filter_by renders a None argument as IS NULL.
StatusExists(rows, sid, st, l, ts) ==
    \E i \in 1..Len(rows) : rows[i] = StatusRow(sid, st, l, ts)

\* SensorData.query.filter_by(shipment_id, timestamp, temperature, humidity,
\* location).first() is not None.
SensorExists(rows, sid, ts, t, h, l) ==
    \E i \in 1..Len(rows) : rows[i] = SensorRow(sid, ts, t, h, l)

\* rows of one shipment, as the list routes select them
RowsOf(rows, sid) == SelectSeq(rows, LAMBDA r : r.shipment_id = sid)

\* .order_by(timestamp): insertion sort by timestamp, ties in id order
RECURSIVE InsertSorted(_, _)
InsertSorted(sorted, r) ==
    IF sorted = <<>> THEN <<r>>
    ELSE IF Head(sorted).timestamp <= r.timestamp
         THEN <<Head(sorted)>> \o InsertSorted(Tail(sorted), r)
         ELSE <<r>> \o sorted
RECURSIVE OrderByTimestamp(_)
OrderByTimestamp(rows) ==
    IF rows = <<>> THEN <<>>
    ELSE InsertSorted(OrderByTimestamp(SubSeq(rows, 1, Len(rows) - 1)), rows[Len(rows)])

\* ------------------------------------------------------ ingestion workflow
\* The scan-event loop of ingest_data: each event's timestamp is parsed
\* (dateScan with trailing Z characters stripped, utcnow() when dateScan is
\* absent or empty) and the row is added unless an identical row is there
\* (the query autoflushes, so rows added earlier in the loop count).  A
\* dateScan that does not parse raises ValueError (ok = FALSE).
RECURSIVE AddScanEvents(_, _, _, _)
AddScanEvents(rows, sid, events, utcnow) ==
    IF events = <<>> THEN [ok |-> TRUE, rows |-> rows]
    ELSE LET event == Head(events)
             ts == IF event.dateScan # <<>>
                   THEN FromIsoFormat(RStripZ(event.dateScan))
                   ELSE [ok |-> TRUE, v |-> utcnow]
         IN  IF ~ts.ok THEN [ok |-> FALSE, rows |-> rows]
             ELSE IF StatusExists(rows, sid, event.status, event.city, ts.v)
                  THEN AddScanEvents(rows, sid, Tail(events), utcnow)
                  ELSE AddScanEvents(
                           Append(rows, StatusRow(sid, event.status, event.city, ts.v)),
                           sid, Tail(events), utcnow)

\* The status text ingest_data writes beside an alert.
ExcursionText(ty) ==
    IF ty = "below_min" THEN "Temperature excursion below minimum"
    ELSE "Temperature excursion above maximum"

\* The report loop of ingest_data over st = [hist, sens, alerts]: a report
\* without timestamp or temperature is skipped, a timestamp that does not
\* parse raises ValueError, a report whose row is already there is skipped;
\* a new row is added and checked against the effective bounds.
RECURSIVE AddReports(_, _, _, _, _)
AddReports(st, sid, reports, temp_min, temp_max) ==
    IF reports = <<>> THEN [ok |-> TRUE, hist |-> st.hist, sens |-> st.sens, alerts |-> st.alerts]
    ELSE LET rec == Head(reports)
             ts == FromIsoFormat(RStripZ(rec.timestamp))
             t == rec.temperature
         IN  IF rec.timestamp = <<>> \/ IsNone(t)
             THEN AddReports(st, sid, Tail(reports), temp_min, temp_max)
             ELSE IF ~ts.ok
             THEN [ok |-> FALSE, hist |-> st.hist, sens |-> st.sens, alerts |-> st.alerts]
             ELSE IF SensorExists(st.sens, sid, ts.v, t, rec.humidity, rec.location)
             THEN AddReports(st, sid, Tail(reports), temp_min, temp_max)
             ELSE LET ty == IngestAlertType(temp_min, temp_max, Val(t))
                      sens2 == Append(st.sens,
                                      SensorRow(sid, ts.v, t, rec.humidity, rec.location))
                  IN  IF IsNone(ty)
                      THEN AddReports([hist |-> st.hist, sens |-> sens2, alerts |-> st.alerts],
                                      sid, Tail(reports), temp_min, temp_max)
                      ELSE AddReports(
                             [hist |-> Append(st.hist,
                                         StatusRow(sid, StatusT(ExcursionText(Val(ty)), Val(t)),
                                                   rec.location, ts.v)),
                              sens |-> sens2,
                              alerts |-> Append(st.alerts, AlertRow(sid, ts.v, Val(t), Val(ty)))],
                             sid, Tail(reports), temp_min, temp_max)

\* The tracking provider's first result: origin, destination and status are
\* fixed, the scan events vary.
TrackInfo(events) ==
    [origin |-> "Memphis", destination |-> "Denver", status |-> "In transit",
     scanEvents |-> events]

\* Requests of POST /ingest together with what the two providers answer to
\* them: complete says whether the four required keys are present, fedex and
\* onasset are the outcomes of the two calls, results is
\* completeTrackResults (empty or one TrackInfo).
IngestReq(tn, lo, hi, fedex, results, onasset, reports) ==
    [complete |-> TRUE, tracking_number |-> tn, temp_min |-> lo, temp_max |-> hi,
     fedex |-> fedex, results |-> results, onasset |-> onasset, reports |-> reports]
TrackingRequests ==
    { IngestReq("TN1", None, None, "ok", <<TrackInfo(ev)>>, "ok", <<>>) :
          ev \in {<<>>, <<EvPicked, EvPickedNoZ>>, <<EvNoDate>>, <<EvPicked, EvBadDate>>} }
    \cup
    { IngestReq("TN1", None, None, "ok", <<TrackInfo(<<EvPicked>>)>>, o, <<>>) :
          o \in Outcomes }
    \cup
    { IngestReq("TN1", None, None, o, <<>>, "ok", <<>>) : o \in Outcomes }
SensorReportRequests ==
    { IngestReq("TN1", lo, hi, "ok", <<TrackInfo(<<>>)>>, "ok", rp) :
          lo \in IngestMins, hi \in IngestMaxs,
          rp \in {<<RepLow, RepLow>>, <<RepHighNulls>>} }
    \cup
    { IngestReq("TN1", None, None, "ok", <<TrackInfo(<<>>)>>, "ok", rp) :
          rp \in {<<RepNoTs, RepNoTemp>>, <<RepHighNulls, RepBadTs>>} }
    \cup
    { IngestReq("TN1", None, Some(80), "ok", <<TrackInfo(<<EvPicked>>)>>, "ok",
                <<RepHighNulls>>) }
IngestRequests ==
    TrackingRequests \cup SensorReportRequests
    \cup {[IngestReq("TN1", None, None, "ok", <<>>, "ok", <<>>) EXCEPT !.complete = FALSE]}

\* Step 2 of ingest_data: temp_min / temp_max of the request, each replaced
\* by the Config bound when it is None; Config is read only when one of
\* them is None, and get_temp_range may then raise.
EffectiveBoundsBothOrNone(req, cfg) ==
    IF IsNone(req.temp_min) \/ IsNone(req.temp_max)
    THEN get_temp_range(cfg)
    ELSE [ok |-> TRUE, min |-> req.temp_min, max |-> req.temp_max]

EffectiveBounds(req, cfg) ==
    IF IsNone(req.temp_min) \/ IsNone(req.temp_max)
    THEN LET r == get_temp_range(cfg)
         IN  [ok |-> r.ok,
              min |-> IF ~IsNone(req.temp_min) THEN req.temp_min ELSE r.min,
              max |-> IF ~IsNone(req.temp_max) THEN req.temp_max ELSE r.max]
    ELSE [ok |-> TRUE, min |-> req.temp_min, max |-> req.temp_max]

\* The create / update of the Shipment row in ingest_data, once the lookup
\* found row `found` (0: none).
UpsertShipment(tbl, found, tn, info) ==
    IF found = 0
    THEN InsertShipment(tbl, ShipmentRow(tn, info.origin, info.destination, info.status))
    ELSE [ok |-> TRUE,
          rows |-> [tbl EXCEPT ![found] =
                       ShipmentRow(tbl[found].tracking_number, info.origin,
                                   info.destination, info.status)]]

IngestFromAtomic(req, bounds, tbl, found, hist, sens, al, utcnow) ==
    LET info == req.results[1]
        up == UpsertShipment(tbl, found, req.tracking_number, info)
        sid == IF found = 0 THEN Len(up.rows) ELSE found
        ev == AddScanEvents(hist, sid, info.scanEvents, utcnow)
        rp == AddReports([hist |-> ev.rows, sens |-> sens, alerts |-> al], sid,
                         req.reports, bounds.min, bounds.max)
        undone(code, calls) ==
            [code |-> code, calls |-> calls,
             shipments |-> tbl, hist |-> hist, sens |-> sens, alerts |-> al]
    IN  IF ~up.ok \/ ~ev.ok THEN undone(500, <<"fedex">>)
        ELSE IF req.onasset = "http_error" THEN undone(502, <<"fedex", "onasset">>)
        ELSE IF req.onasset = "network_error" \/ ~rp.ok
        THEN undone(500, <<"fedex", "onasset">>)
        ELSE [code |-> 200, calls |-> <<"fedex", "onasset">>,
              shipments |-> up.rows, hist |-> rp.hist, sens |-> rp.sens,
              alerts |-> rp.alerts]

\* ingest_data from the Shipment upsert on: the response code, the tables
\* as committed and the provider calls made by then.  The three commits are
\* separate: what was committed before a failure stays, what was only added
\* to the session is rolled back.  requests.HTTPError is answered 502, any
\* other exception (a ConnectionError of the call included) 500.
IngestFrom(req, bounds, tbl, found, hist, sens, al, utcnow) ==
    LET info == req.results[1]
        up == UpsertShipment(tbl, found, req.tracking_number, info)
        sid == IF found = 0 THEN Len(up.rows) ELSE found
        ev == AddScanEvents(hist, sid, info.scanEvents, utcnow)
        rp == AddReports([hist |-> ev.rows, sens |-> sens, alerts |-> al], sid,
                         req.reports, bounds.min, bounds.max)
    IN  IF ~up.ok
        THEN [code |-> 500, calls |-> <<"fedex">>,
              shipments |-> tbl, hist |-> hist, sens |-> sens, alerts |-> al]
        ELSE IF ~ev.ok
        THEN [code |-> 500, calls |-> <<"fedex">>,
              shipments |-> up.rows, hist |-> hist, sens |-> sens, alerts |-> al]
        ELSE IF req.onasset = "http_error"
        THEN [code |-> 502, calls |-> <<"fedex", "onasset">>,
              shipments |-> up.rows, hist |-> ev.rows, sens |-> sens, alerts |-> al]
        ELSE IF req.onasset = "network_error" \/ ~rp.ok
        THEN [code |-> 500, calls |-> <<"fedex", "onasset">>,
              shipments |-> up.rows, hist |-> ev.rows, sens |-> sens, alerts |-> al]
        ELSE [code |-> 200, calls |-> <<"fedex", "onasset">>,
              shipments |-> up.rows, hist |-> rp.hist, sens |-> rp.sens,
              alerts |-> rp.alerts]

\* ingest_data up to the Shipment lookup: the response code when the request
\* ends there, 0 when it goes on to the upsert.
IngestEarly(req, bounds) ==
    IF ~req.complete THEN 400
    ELSE IF ~bounds.ok THEN 500
    ELSE IF req.fedex = "http_error" THEN 502
    ELSE IF req.fedex = "network_error" THEN 500
    ELSE IF req.results = <<>> THEN 404
    ELSE 0

\* ----------------------------------------------------------- other routes
create_temp_alert_only(cfg, hist, al, sid, temperature, utcnow) ==
    LET r == get_temp_range(cfg)
        ty == AlertType(r.min, r.max, Val(temperature))
    IN  IF ~r.ok THEN [ok |-> FALSE, hist |-> hist, alerts |-> al]
        ELSE IF IsNone(temperature)
        THEN [ok |-> IsNone(r.min) /\ IsNone(r.max), hist |-> hist, alerts |-> al]
        ELSE IF IsNone(ty) THEN [ok |-> TRUE, hist |-> hist, alerts |-> al]
        ELSE [ok |-> TRUE, hist |-> hist,
              alerts |-> Append(al, AlertRow(sid, utcnow, Val(temperature), Val(ty)))]

\* create_temp_alert_if_needed(shipment_id, temperature) on the tables
\* [hist, alerts]: get_temp_range may raise ValueError and comparing a None
\* temperature with a bound raises TypeError (ok = FALSE); an alert comes
\* with a "Temperature excursion: <type>" status row, both stamped utcnow().
create_temp_alert_if_needed(cfg, hist, al, sid, temperature, utcnow) ==
    LET r == get_temp_range(cfg)
        ty == AlertType(r.min, r.max, Val(temperature))
    IN  IF ~r.ok THEN [ok |-> FALSE, hist |-> hist, alerts |-> al]
        ELSE IF IsNone(temperature)
        THEN [ok |-> IsNone(r.min) /\ IsNone(r.max), hist |-> hist, alerts |-> al]
        ELSE IF IsNone(ty) THEN [ok |-> TRUE, hist |-> hist, alerts |-> al]
        ELSE [ok |-> TRUE,
              hist |-> Append(hist,
                         StatusRow(sid,
                                   Status(IF Val(ty) = "below_min"
                                          THEN "Temperature excursion: below_min"
                                          ELSE "Temperature excursion: above_max"),
                                   None, utcnow)),
              alerts |-> Append(al, AlertRow(sid, utcnow, Val(temperature), Val(ty)))]

\* The loop of fetch_shipment_data_from_api: an item is added unless a
\* Shipment with its tracking number exists (rows added earlier in the loop
\* count, the query autoflushes).
FetchedRow(tn) == ShipmentRow(tn, "Chicago", "Dallas", "Imported")
RECURSIVE AddFetched(_, _)
AddFetched(tbl, items) ==
    IF items = <<>> THEN tbl
    ELSE IF FindShipment(tbl, Head(items)) # 0 THEN AddFetched(tbl, Tail(items))
    ELSE AddFetched(Append(tbl, FetchedRow(Head(items))), Tail(items))

\* Requests of POST /fetch-shipments with the answer of the URL fetched: the
\* tracking numbers of the shipment objects it lists.
FetchRequests ==
    { [has_url |-> TRUE, outcome |-> "ok", items |-> <<"TN1", "TN1">>],
      [has_url |-> TRUE, outcome |-> "http_error", items |-> <<>>],
      [has_url |-> FALSE, outcome |-> "ok", items |-> <<>>] }

NoWorker == [req |-> <<>>, found |-> 0]
Workers == {1, 2}

Init ==
    /\ shipments = <<>>
    /\ statusHistory = <<>>
    /\ sensorData = <<>>
    /\ alerts = <<>>
    /\ config = [min_temperature |-> None, max_temperature |-> None]
    /\ now = 1
    /\ resp = [route |-> "none", code |-> 0]
    /\ pc = [w \in Workers |-> "idle"]
    /\ loc = [w \in Workers |-> NoWorker]

\* the tables fit the bounds of the model
Fits(hist, sens) == Len(hist) <= MaxStatusRows /\ Len(sens) <= MaxSensorRows

\* time passes between requests
Tick ==
    /\ now < MaxClock
    /\ now' = now + 1
    /\ UNCHANGED <<db, resp, pc, loc>>

\* The response of POST /ingest as the model records it: the request with
\* the providers' answers, the status code, the provider calls made, and
\* rerun: whether the request before this one was the same request, with the
\* same answers, and succeeded.
IngestResp(req, code, calls) ==
    [route |-> "ingest", code |-> code, req |-> req, calls |-> calls,
     rerun |-> resp.route = "ingest" /\ resp.code = 200 /\ resp.req = req]

\* POST /ingest
Ingest(req) ==
    LET bounds == EffectiveBounds(req, config)
        early == IngestEarly(req, bounds)
        r == IngestFrom(req, bounds, shipments, FindShipment(shipments, req.tracking_number),
                        statusHistory, sensorData, alerts, now)
    IN  IF early # 0
        THEN /\ resp' = IngestResp(req, early,
                                   IF req.complete /\ bounds.ok THEN <<"fedex">> ELSE <<>>)
             /\ UNCHANGED <<db, now, pc, loc>>
        ELSE /\ Fits(r.hist, r.sens)
             /\ shipments' = r.shipments
             /\ statusHistory' = r.hist
             /\ sensorData' = r.sens
             /\ alerts' = r.alerts
             /\ resp' = IngestResp(req, r.code, r.calls)
             /\ UNCHANGED <<config, now, pc, loc>>

\* POST /fetch-shipments: a RequestException of the fetch is caught and
\* printed by fetch_shipment_data_from_api, and the route answers 200.
FetchShipments(req) ==
    /\ resp' = [route |-> "fetch_shipments", code |-> IF req.has_url THEN 200 ELSE 400,
                req |-> req]
    /\ shipments' = IF req.has_url /\ req.outcome = "ok"
                    THEN AddFetched(shipments, req.items) ELSE shipments
    /\ UNCHANGED <<statusHistory, sensorData, alerts, config, now, pc, loc>>

CreateShipmentUpsert(body) ==
    LET sid == FindShipment(shipments, body.tracking_number)
        row == ShipmentRow(body.tracking_number, body.origin, body.destination,
                           body.current_status)
    IN  /\ resp' = [route |-> "create_shipment", code |-> IF body.has_tn THEN 201 ELSE 400,
                    req |-> body]
        /\ shipments' = IF ~body.has_tn THEN shipments
                        ELSE IF sid = 0 THEN Append(shipments, row)
                        ELSE [shipments EXCEPT ![sid] = row]
        /\ UNCHANGED <<statusHistory, sensorData, alerts, config, now, pc, loc>>

\* POST /shipments
CreateShipment(body) ==
    LET ins == InsertShipment(shipments,
                   ShipmentRow(body.tracking_number, body.origin, body.destination,
                               body.current_status))
        code == IF ~body.has_tn THEN 400
                ELSE IF FindShipment(shipments, body.tracking_number) # 0 THEN 400
                ELSE IF ~ins.ok THEN 500
                ELSE 201
    IN  /\ resp' = [route |-> "create_shipment", code |-> code, req |-> body]
        /\ shipments' = IF code = 201 THEN ins.rows ELSE shipments
        /\ UNCHANGED <<statusHistory, sensorData, alerts, config, now, pc, loc>>

\* GET /shipments/{tn}
GetShipment(tn) ==
    LET sid == FindShipment(shipments, tn) IN
    /\ resp' = IF sid = 0 THEN [route |-> "get_shipment", code |-> 404, tn |-> tn]
               ELSE [route |-> "get_shipment", code |-> 200, tn |-> tn,
                     body |-> <<shipments[sid]>>]
    /\ UNCHANGED <<db, now, pc, loc>>

\* GET /shipments/{tn}/status
GetStatusHistory(tn) ==
    LET sid == FindShipment(shipments, tn) IN
    /\ resp' = IF sid = 0 THEN [route |-> "get_status_history", code |-> 404, tn |-> tn]
               ELSE [route |-> "get_status_history", code |-> 200, tn |-> tn,
                     body |-> OrderByTimestamp(RowsOf(statusHistory, sid))]
    /\ UNCHANGED <<db, now, pc, loc>>

GetSensorDataLenient(tn) ==
    /\ resp' = [route |-> "get_sensor_data", code |-> 200, tn |-> tn,
                body |-> OrderByTimestamp(RowsOf(sensorData, FindShipment(shipments, tn)))]
    /\ UNCHANGED <<db, now, pc, loc>>

\* GET /shipments/{tn}/sensor
GetSensorData(tn) ==
    LET sid == FindShipment(shipments, tn) IN
    /\ resp' = IF sid = 0 THEN [route |-> "get_sensor_data", code |-> 404, tn |-> tn]
               ELSE [route |-> "get_sensor_data", code |-> 200, tn |-> tn,
                     body |-> OrderByTimestamp(RowsOf(sensorData, sid))]
    /\ UNCHANGED <<db, now, pc, loc>>

\* GET /shipments/{tn}/alerts
GetTemperatureAlerts(tn) ==
    LET sid == FindShipment(shipments, tn) IN
    /\ resp' = IF sid = 0 THEN [route |-> "get_temperature_alerts", code |-> 404, tn |-> tn]
               ELSE [route |-> "get_temperature_alerts", code |-> 200, tn |-> tn,
                     body |-> OrderByTimestamp(RowsOf(alerts, sid))]
    /\ UNCHANGED <<db, now, pc, loc>>

AddStatusDedup(tn, body) ==
    LET sid == FindShipment(shipments, tn)
        ts == IF body.timestamp # <<>> THEN FromIsoFormat(body.timestamp)
              ELSE [ok |-> TRUE, v |-> now]
        code == IF sid = 0 THEN 404
                ELSE IF ~body.has_status THEN 400
                ELSE IF ~ts.ok THEN 500
                ELSE 201
    IN  /\ resp' = [route |-> "add_status", code |-> code, tn |-> tn, req |-> body]
        /\ IF code = 201
           THEN /\ Len(statusHistory) < MaxStatusRows
                /\ statusHistory' =
                       IF \E i \in 1..Len(statusHistory) :
                             statusHistory[i] = StatusRow(sid, body.status, body.location, ts.v)
                       THEN statusHistory
                       ELSE Append(statusHistory,
                                   StatusRow(sid, body.status, body.location, ts.v))
                /\ shipments' =
                       [shipments EXCEPT ![sid].current_status = body.status.text]
           ELSE UNCHANGED <<statusHistory, shipments>>
        /\ UNCHANGED <<sensorData, alerts, config, now, pc, loc>>

\* POST /shipments/{tn}/status
AddStatus(tn, body) ==
    LET sid == FindShipment(shipments, tn)
        ts == IF body.timestamp # <<>> THEN FromIsoFormat(body.timestamp)
              ELSE [ok |-> TRUE, v |-> now]
        code == IF sid = 0 THEN 404
                ELSE IF ~body.has_status THEN 400
                ELSE IF ~ts.ok THEN 500
                ELSE 201
    IN  /\ resp' = [route |-> "add_status", code |-> code, tn |-> tn, req |-> body]
        /\ IF code = 201
           THEN /\ Len(statusHistory) < MaxStatusRows
                /\ statusHistory' =
                       Append(statusHistory, StatusRow(sid, body.status, body.location, ts.v))
                /\ shipments' =
                       [shipments EXCEPT ![sid].current_status = body.status.text]
           ELSE UNCHANGED <<statusHistory, shipments>>
        /\ UNCHANGED <<sensorData, alerts, config, now, pc, loc>>

\* A variant of the handler that evaluates the thresholds before it parses
\* the timestamp and stores the reading: an alert can then be committed
\* for a reading that never is.
AddSensorDataAlertFirst(tn, body) ==
    LET sid == FindShipment(shipments, tn)
        ts == IF body.timestamp # <<>> THEN FromIsoFormat(body.timestamp)
              ELSE [ok |-> TRUE, v |-> now]
        chk == create_temp_alert_if_needed(config, statusHistory, alerts, sid,
                                           body.temperature, now)
        code == IF sid = 0 THEN 404
                ELSE IF ~body.has_temperature THEN 400
                ELSE IF ~chk.ok THEN 500
                ELSE IF ~ts.ok THEN 500
                ELSE 201
    IN  /\ resp' = [route |-> "add_sensor_data", code |-> code, tn |-> tn, req |-> body]
        /\ IF sid # 0 /\ body.has_temperature
           THEN /\ Len(sensorData) < MaxSensorRows
                /\ Len(chk.hist) <= MaxStatusRows
                /\ sensorData' =
                       IF chk.ok /\ ts.ok
                       THEN Append(sensorData,
                                   SensorRow(sid, ts.v, body.temperature, body.humidity,
                                             body.location))
                       ELSE sensorData
                /\ statusHistory' = chk.hist
                /\ alerts' = chk.alerts
           ELSE UNCHANGED <<sensorData, statusHistory, alerts>>
        /\ UNCHANGED <<shipments, config, now, pc, loc>>

\* POST /shipments/{tn}/sensor: the reading is committed before the
\* threshold check, so it stays when the check raises.
AddSensorData(tn, body) ==
    LET sid == FindShipment(shipments, tn)
        ts == IF body.timestamp # <<>> THEN FromIsoFormat(body.timestamp)
              ELSE [ok |-> TRUE, v |-> now]
        chk == create_temp_alert_if_needed(config, statusHistory, alerts, sid,
                                           body.temperature, now)
        code == IF sid = 0 THEN 404
                ELSE IF ~body.has_temperature THEN 400
                ELSE IF ~ts.ok THEN 500
                ELSE IF ~chk.ok THEN 500
                ELSE 201
    IN  /\ resp' = [route |-> "add_sensor_data", code |-> code, tn |-> tn, req |-> body]
        /\ IF sid # 0 /\ body.has_temperature /\ ts.ok
           THEN /\ Len(sensorData) < MaxSensorRows
                /\ Len(chk.hist) <= MaxStatusRows
                /\ sensorData' =
                       Append(sensorData,
                              SensorRow(sid, ts.v, body.temperature, body.humidity,
                                        body.location))
                /\ statusHistory' = chk.hist
                /\ alerts' = chk.alerts
           ELSE UNCHANGED <<sensorData, statusHistory, alerts>>
        /\ UNCHANGED <<shipments, config, now, pc, loc>>

\* GET /config/temperature-range: float() of a stored value raises
\* ValueError when it is no number, and the request ends with 500.
GetTemperatureRange ==
    LET r == get_temp_range(config) IN
    /\ resp' = IF r.ok
               THEN [route |-> "get_temperature_range", code |-> 200,
                     body |-> [min_temperature |-> r.min, max_temperature |-> r.max]]
               ELSE [route |-> "get_temperature_range", code |-> 500]
    /\ UNCHANGED <<db, now, pc, loc>>

\* PUT /config/temperature-range: both keys are upserted with str(value).
SetTemperatureRange(body) ==
    /\ resp' = [route |-> "set_temperature_range",
                code |-> IF body.has_min /\ body.has_max THEN 200 ELSE 400, req |-> body]
    /\ config' = IF body.has_min /\ body.has_max
                 THEN [min_temperature |-> Some(PyStr(body.min)),
                       max_temperature |-> Some(PyStr(body.max))]
                 ELSE config
    /\ UNCHANGED <<shipments, statusHistory, sensorData, alerts, now, pc, loc>>

\* --------------------------------------------------------- specifications
\* The inputs of Spec: every route on a core set of requests.
CoreIngestRequests ==
    { IngestReq("TN1", Some(20), None, "ok", <<TrackInfo(<<EvPicked>>)>>, "ok", <<RepLow>>),
      IngestReq("TN1", None, None, "http_error", <<>>, "ok", <<>>) }
StatusRequests ==
    {"TN1"} \X { StatusBody(TRUE, <<>>), StatusBody(TRUE, <<"1">>),
                 StatusBody(TRUE, <<"x">>), StatusBody(FALSE, <<>>) }
CoreSensorRequests ==
    {"TN1"} \X { SensorBody(TRUE, Some(15), <<>>), SensorBody(TRUE, None, <<>>),
                 SensorBody(FALSE, None, <<>>) }
CorePutBodies ==
    { PutBody(TRUE, JFloat(20), TRUE, JFloat(80)), PutBody(TRUE, JNull, TRUE, JFloat(80)),
      PutBody(TRUE, JFloat(20), FALSE, JNull) }

\* The whole API, one request at a time, at one instant.
Next ==
    \/ \E req \in CoreIngestRequests : Ingest(req)
    \/ \E req \in FetchRequests : FetchShipments(req)
    \/ \E body \in ShipmentBodies : CreateShipment(body)
    \/ \E tn \in TrackingNumbers : GetShipment(tn)
    \/ \E tn \in TrackingNumbers : GetStatusHistory(tn)
    \/ \E tn \in TrackingNumbers : GetSensorData(tn)
    \/ \E tn \in TrackingNumbers : GetTemperatureAlerts(tn)
    \/ \E r \in StatusRequests : AddStatus(r[1], r[2])
    \/ \E r \in CoreSensorRequests : AddSensorData(r[1], r[2])
    \/ GetTemperatureRange
    \/ \E body \in CorePutBodies : SetTemperatureRange(body)

Spec == Init /\ [][Next]_vars

\* The ingestion workflow on every payload, with the Config bounds it falls
\* back to.
NextIngest ==
    \/ Tick
    \/ \E req \in IngestRequests : Ingest(req)
    \/ \E body \in CorePutBodies : SetTemperatureRange(body)

SpecIngest == Init /\ [][NextIngest]_vars

\* The threshold evaluator at its two call sites, and the Config routes.
NextThreshold ==
    \/ CreateShipment(ShipmentBody(TRUE, "TN1"))
    \/ \E req \in SensorReportRequests : Ingest(req)
    \/ \E r \in SensorRequests : AddSensorData(r[1], r[2])
    \/ GetTemperatureRange
    \/ \E body \in PutBodies : SetTemperatureRange(body)

SpecThreshold == Init /\ [][NextThreshold]_vars

\* ------------------------------------------------------ concurrent requests
\* Requests served by concurrent workers.  The three handlers that create a
\* Shipment first look one up and insert later; between the two another
\* worker may commit.  Each handler is split at that point: the lookup keeps
\* what it found in the worker's locals, the commit acts on it against the
\* table as it then is.
ConcIngestRequests ==
    { IngestReq(tn, None, None, "ok", <<TrackInfo(<<>>)>>, "ok", <<>>) :
          tn \in TrackingNumbers }
ConcFetchRequests ==
    [has_url : {TRUE}, outcome : {"ok"}, items : {<<"TN1">>, <<"TN2", "TN2">>}]

\* the lookups of fetch_shipment_data_from_api's loop: the tracking numbers
\* it decides to insert
RECURSIVE FetchPending(_, _, _)
FetchPending(tbl, items, pending) ==
    IF items = <<>> THEN pending
    ELSE IF FindShipment(tbl, Head(items)) # 0
            \/ \E i \in 1..Len(pending) : pending[i] = Head(items)
         THEN FetchPending(tbl, Tail(items), pending)
         ELSE FetchPending(tbl, Tail(items), Append(pending, Head(items)))

\* the INSERTs of the rows the loop added, in one transaction
RECURSIVE InsertAll(_, _)
InsertAll(tbl, tns) ==
    IF tns = <<>> THEN [ok |-> TRUE, rows |-> tbl]
    ELSE LET ins == InsertShipment(tbl, FetchedRow(Head(tns)))
         IN  IF ~ins.ok THEN ins ELSE InsertAll(ins.rows, Tail(tns))

Start(w, kind, l) ==
    /\ pc[w] = "idle"
    /\ pc' = [pc EXCEPT ![w] = kind]
    /\ loc' = [loc EXCEPT ![w] = l]
    /\ UNCHANGED <<db, now, resp>>

Finish(w) ==
    /\ pc' = [pc EXCEPT ![w] = "idle"]
    /\ loc' = [loc EXCEPT ![w] = NoWorker]

\* ingest_data up to Shipment.query...first()
IngestLookup(w, req) ==
    /\ IngestEarly(req, EffectiveBounds(req, config)) = 0
    /\ Start(w, "ingest",
             [req |-> req, found |-> FindShipment(shipments, req.tracking_number)])

\* ingest_data from the insert / update of the Shipment on
IngestCommit(w) ==
    LET req == loc[w].req
        r == IngestFrom(req, EffectiveBounds(req, config), shipments, loc[w].found,
                        statusHistory, sensorData, alerts, now)
    IN  /\ pc[w] = "ingest"
        /\ Fits(r.hist, r.sens)
        /\ shipments' = r.shipments
        /\ statusHistory' = r.hist
        /\ sensorData' = r.sens
        /\ alerts' = r.alerts
        /\ resp' = IngestResp(req, r.code, r.calls)
        /\ Finish(w)
        /\ UNCHANGED <<config, now>>

\* create_shipment up to the lookup, when it finds no Shipment
CreateLookup(w, body) ==
    /\ body.has_tn
    /\ FindShipment(shipments, body.tracking_number) = 0
    /\ Start(w, "create", [req |-> body, found |-> 0])

\* create_shipment's insert and commit; an IntegrityError is not caught
CreateCommit(w) ==
    LET body == loc[w].req
        ins == InsertShipment(shipments,
                   ShipmentRow(body.tracking_number, body.origin, body.destination,
                               body.current_status))
    IN  /\ pc[w] = "create"
        /\ shipments' = ins.rows
        /\ resp' = [route |-> "create_shipment", code |-> IF ins.ok THEN 201 ELSE 500,
                    req |-> body]
        /\ Finish(w)
        /\ UNCHANGED <<statusHistory, sensorData, alerts, config, now>>

\* fetch_shipment_data_from_api's lookups
FetchLookup(w, req) ==
    /\ req.has_url
    /\ Start(w, "fetch", [req |-> req, found |-> 0,
                       pending |-> FetchPending(shipments, req.items, <<>>)])

\* fetch_shipment_data_from_api's inserts and commit; an IntegrityError
\* rolls the batch back and reaches fetch_shipments' except clause
FetchCommit(w) ==
    LET ins == InsertAll(shipments, loc[w].pending) IN
    /\ pc[w] = "fetch"
    /\ shipments' = IF ins.ok THEN ins.rows ELSE shipments
    /\ resp' = [route |-> "fetch_shipments", code |-> IF ins.ok THEN 200 ELSE 500,
                req |-> loc[w].req]
    /\ Finish(w)
    /\ UNCHANGED <<statusHistory, sensorData, alerts, config, now>>

NextConc ==
    \/ \E w \in Workers, req \in ConcIngestRequests : IngestLookup(w, req)
    \/ \E w \in Workers : IngestCommit(w)
    \/ \E w \in Workers, body \in ShipmentBodies : CreateLookup(w, body)
    \/ \E w \in Workers : CreateCommit(w)
    \/ \E w \in Workers, req \in ConcFetchRequests : FetchLookup(w, req)
    \/ \E w \in Workers : FetchCommit(w)

SpecConc == Init /\ [][NextConc]_vars
\* ------------------------------------------------------------------ claims
\* What the claims speak of, stated on the tables and the responses alone.
HasShipment(tbl, tn) == \E i \in 1..Len(tbl) : tbl[i].tracking_number = tn
NewRows(before, after) == SubSeq(after, Len(before) + 1, Len(after))
Last(rows) == rows[Len(rows)]

\* a Config bound as a number: None when the key has no row
ConfigBound(value) == IF IsNone(value) THEN None ELSE Some(PyFloat(Val(value)).v)
ConfigParses(value) == IsNone(value) \/ PyFloat(Val(value)).ok

\* the policy as the specification words it
BelowMin(lo, t) == ~IsNone(lo) /\ t < Val(lo)
AboveMax(lo, hi, t) == ~BelowMin(lo, t) /\ ~IsNone(hi) /\ t > Val(hi)

\* the alerts the policy asks for, reading by reading
RECURSIVE PolicyAlerts(_, _, _)
PolicyAlerts(readings, lo, hi) ==
    IF readings = <<>> THEN <<>>
    ELSE LET r == Head(readings)
             t == Val(r.temperature)
             rest == PolicyAlerts(Tail(readings), lo, hi)
         IN  IF BelowMin(lo, t)
             THEN <<[shipment_id |-> r.shipment_id, temperature |-> t,
                     alert_type |-> "below_min"]>> \o rest
             ELSE IF AboveMax(lo, hi, t)
             THEN <<[shipment_id |-> r.shipment_id, temperature |-> t,
                     alert_type |-> "above_max"]>> \o rest
             ELSE rest

AlertsMade(rows) ==
    [i \in 1..Len(rows) |->
        [shipment_id |-> rows[i].shipment_id, temperature |-> rows[i].temperature,
         alert_type |-> rows[i].alert_type]]

\* C1: whenever a request stores new sensor readings, the alerts it creates
\* are exactly those of the policy (below_min iff lo is set and t < lo,
\* above_max iff not below_min and hi is set and t > hi, none otherwise), one
\* per breaching reading in order.  For POST /shipments/{tn}/sensor lo and hi
\* are the Config values; for POST /ingest each is the request's temp_min /
\* temp_max when supplied and the Config value otherwise.  The bounds are
\* numbers or unset: a sensor POST made while Config holds a value that is no
\* number, or with a null temperature, is outside the statement.
C1_AlertPolicy ==
    [][ LET readings == NewRows(sensorData, sensorData')
            made == AlertsMade(NewRows(alerts, alerts'))
            cmin == ConfigBound(config.min_temperature)
            cmax == ConfigBound(config.max_temperature)
        IN  /\ (/\ resp'.route = "add_sensor_data"
                /\ readings # <<>>
                /\ ~IsNone(readings[1].temperature)
                /\ ConfigParses(config.min_temperature)
                /\ ConfigParses(config.max_temperature))
               => made = PolicyAlerts(readings, cmin, cmax)
            /\ (resp'.route = "ingest" /\ readings # <<>>)
               => made = PolicyAlerts(readings,
                             IF ~IsNone(resp'.req.temp_min) THEN resp'.req.temp_min ELSE cmin,
                             IF ~IsNone(resp'.req.temp_max) THEN resp'.req.temp_max ELSE cmax)
      ]_vars

\* C1 witness: an ingestion that supplied temp_max only stored a reading
\* below the Config minimum and raised a below_min alert for it.
C1_Witness ==
    /\ resp.route = "ingest"
    /\ resp.code = 200
    /\ IsNone(resp.req.temp_min)
    /\ ~IsNone(resp.req.temp_max)
    /\ ~IsNone(config.min_temperature)
    /\ sensorData # <<>>
    /\ alerts # <<>>
    /\ Last(alerts).alert_type = "below_min"
    /\ Last(alerts).temperature = Val(Last(sensorData).temperature)

\* every scan event of the tracking payload carries a dateScan
AllDated(events) == \A i \in 1..Len(events) : events[i].dateScan # <<>>

\* C2 as claimed: when POST /ingest succeeded and is run again with the
\* providers returning the identical payloads, the second run adds no
\* StatusHistory, SensorData or TemperatureAlert row, whatever the payload
\* (scan events without a dateScan included).
C2_ReingestAddsNothing ==
    [][ (resp'.route = "ingest" /\ resp'.rerun)
        => UNCHANGED <<statusHistory, sensorData, alerts>> ]_vars

\* C2 as amended: the second run adds no SensorData and no TemperatureAlert
\* row, and no StatusHistory row other than rows for the payload's scan
\* events without a dateScan, stamped with the time of the second run; when
\* every scan event carries a dateScan it adds no row at all (reports with
\* null humidity or location included).
C2_ReingestAddsOnlyUndated ==
    [][ (resp'.route = "ingest" /\ resp'.rerun)
        => LET events == resp'.req.results[1].scanEvents
               new == NewRows(statusHistory, statusHistory')
           IN  /\ UNCHANGED <<sensorData, alerts>>
               /\ SubSeq(statusHistory', 1, Len(statusHistory)) = statusHistory
               /\ \A j \in 1..Len(new) :
                     /\ new[j].timestamp = now
                     /\ \E i \in 1..Len(events) :
                           /\ events[i].dateScan = <<>>
                           /\ new[j].status = events[i].status
                           /\ new[j].location = events[i].city
               /\ AllDated(events) => statusHistory' = statusHistory ]_vars

\* C2 witness: after time has passed, a payload of a dated scan event with
\* a null city and a breaching report with null humidity and location was
\* ingested a second time and answered 200, the rows of the first run
\* standing.
C2_Witness ==
    /\ resp.route = "ingest"
    /\ resp.rerun
    /\ resp.code = 200
    /\ now > 1
    /\ resp.req.results[1].scanEvents # <<>>
    /\ AllDated(resp.req.results[1].scanEvents)
    /\ IsNone(resp.req.results[1].scanEvents[1].city)
    /\ resp.req.reports # <<>>
    /\ IsNone(resp.req.reports[1].humidity)
    /\ Len(statusHistory) = 2
    /\ Len(sensorData) = 1
    /\ Len(alerts) = 1

\* C3: POST /shipments with a tracking_number that a Shipment row already
\* has is answered 400 and leaves the shipments table as it was (no second
\* row, no field changed), whichever route created the row.
C3_DuplicateCreateRefused ==
    [][ (/\ resp'.route = "create_shipment"
         /\ resp'.req.has_tn
         /\ HasShipment(shipments, resp'.req.tracking_number))
        => (resp'.code = 400 /\ shipments' = shipments) ]_vars

\* C3 witness: a create was refused with 400 for a tracking number whose row
\* came from ingestion or from a bulk import and differs from the body.
C3_Witness ==
    /\ resp.route = "create_shipment"
    /\ resp.code = 400
    /\ resp.req.has_tn
    /\ \E i \in 1..Len(shipments) :
          /\ shipments[i].tracking_number = resp.req.tracking_number
          /\ shipments[i].origin # resp.req.origin

\* a sensor POST that breaches a Config bound: both Config values are
\* numbers or unset and the temperature is outside them
Breach(cfg, temperature) ==
    /\ ~IsNone(temperature)
    /\ ConfigParses(cfg.min_temperature)
    /\ ConfigParses(cfg.max_temperature)
    /\ \/ BelowMin(ConfigBound(cfg.min_temperature), Val(temperature))
       \/ AboveMax(ConfigBound(cfg.min_temperature), ConfigBound(cfg.max_temperature),
                   Val(temperature))

\* C4 as claimed: a POST /shipments/{tn}/sensor answered 201 whose
\* temperature breaches a Config bound adds one SensorData row and one
\* TemperatureAlert row and leaves the StatusHistory rows unchanged.
C4_SensorPostNoStatusRow ==
    [][ (/\ resp'.route = "add_sensor_data"
         /\ resp'.code = 201
         /\ Breach(config, resp'.req.temperature))
        => /\ Len(sensorData') = Len(sensorData) + 1
           /\ Len(alerts') = Len(alerts) + 1
           /\ statusHistory' = statusHistory ]_vars

\* C4 as amended: such a POST adds one SensorData row, one TemperatureAlert
\* row and one StatusHistory row, of the same shipment, with status
\* "Temperature excursion: <alert type>" and no location; the other
\* StatusHistory rows are unchanged.
C4_SensorPostAddsStatusRow ==
    [][ (/\ resp'.route = "add_sensor_data"
         /\ resp'.code = 201
         /\ Breach(config, resp'.req.temperature))
        => /\ Len(sensorData') = Len(sensorData) + 1
           /\ SubSeq(sensorData', 1, Len(sensorData)) = sensorData
           /\ Len(alerts') = Len(alerts) + 1
           /\ SubSeq(alerts', 1, Len(alerts)) = alerts
           /\ Len(statusHistory') = Len(statusHistory) + 1
           /\ SubSeq(statusHistory', 1, Len(statusHistory)) = statusHistory
           /\ Last(statusHistory').shipment_id = Last(sensorData').shipment_id
           /\ Last(alerts').shipment_id = Last(sensorData').shipment_id
           /\ IsNone(Last(statusHistory').location)
           /\ Last(statusHistory').status =
                 Status(IF Last(alerts').alert_type = "below_min"
                        THEN "Temperature excursion: below_min"
                        ELSE "Temperature excursion: above_max") ]_vars

\* C4 witness: a sensor POST of 1.5 degrees under a Config minimum of 2.0
\* was answered 201 and left its reading, a below_min alert and the
\* excursion status row.
C4_Witness ==
    /\ resp.route = "add_sensor_data"
    /\ resp.code = 201
    /\ resp.req.temperature = Some(15)
    /\ config.min_temperature = Some(<<"2", ".", "0">>)
    /\ sensorData # <<>> /\ alerts # <<>> /\ statusHistory # <<>>
    /\ Last(sensorData).temperature = Some(15)
    /\ Last(alerts).alert_type = "below_min"
    /\ Last(statusHistory).status = Status("Temperature excursion: below_min")

GetRoutes ==
    {"get_shipment", "get_status_history", "get_sensor_data", "get_temperature_alerts"}

\* C6: each of the four GET routes, asked for a tracking number that has no
\* Shipment row, answers 404 and changes no table, whatever was done before.
C6_UnknownShipment404 ==
    [][ (resp'.route \in GetRoutes /\ ~HasShipment(shipments, resp'.tn))
        => (resp'.code = 404 /\ UNCHANGED db) ]_vars

\* C6 witness: a GET of the sensor data of an unknown tracking number was
\* answered 404 while another shipment had readings and alerts stored.
C6_Witness ==
    /\ resp.route = "get_sensor_data"
    /\ resp.code = 404
    /\ ~HasShipment(shipments, resp.tn)
    /\ shipments # <<>>
    /\ sensorData # <<>>
    /\ alerts # <<>>

\* the float a JSON number of a PUT body stands for, in tenths
AsFloat(j) == IF j.k = "int" THEN Some(10 * j.n) ELSE Some(j.n)

\* C7: a GET /config/temperature-range that follows a PUT whose body had
\* both keys and was answered 200 is answered 200 with min_temperature and
\* max_temperature equal, as floats, to the values just set; and a GET
\* answers null for a bound whose key was never set.
C7_ConfigRoundTrip ==
    [][ (resp'.route = "get_temperature_range")
        => /\ (resp.route = "set_temperature_range" /\ resp.code = 200)
              => /\ resp'.code = 200
                 /\ resp'.body.min_temperature = AsFloat(resp.req.min)
                 /\ resp'.body.max_temperature = AsFloat(resp.req.max)
           /\ (IsNone(config.min_temperature) /\ IsNone(config.max_temperature))
              => /\ resp'.code = 200
                 /\ IsNone(resp'.body.min_temperature)
                 /\ IsNone(resp'.body.max_temperature) ]_vars

C9_TrackingNumberUnique ==
    \A i, j \in 1..Len(shipments) :
        shipments[i].tracking_number = shipments[j].tracking_number => i = j

\* C9 witness: a POST /shipments that had found no Shipment for its tracking
\* number came to insert after a concurrent ingestion or import had
\* committed one, and the insert was refused.
C9_Witness ==
    /\ resp.route = "create_shipment"
    /\ resp.code = 500
    /\ \E i \in 1..Len(shipments) :
          /\ shipments[i].tracking_number = resp.req.tracking_number
          /\ shipments[i].origin # resp.req.origin

\* the last provider call a POST /ingest made failed upstream
UpstreamFailure(r) ==
    /\ r.route = "ingest"
    /\ r.calls # <<>>
    /\ IF Last(r.calls) = "fedex" THEN r.req.fedex # "ok" ELSE r.req.onasset # "ok"

\* C5: a POST /ingest in which a provider call failed upstream, by a non-2xx
\* status or by a network failure, is answered 502 (so 500 is answered only
\* to failures that are not upstream failures).
C5_UpstreamIs502 == UpstreamFailure(resp) => resp.code = 502

\* C10: when the tracking call succeeded with a non-empty result and the
\* sensor-report call then failed with an HTTP error, POST /ingest answers
\* 502, the Shipment carries the tracking result, every scan event of the
\* payload has its StatusHistory row, rows stored before are kept, and no
\* SensorData or TemperatureAlert row is added.
C10_PartialSuccessKept ==
    [][ (/\ resp'.route = "ingest"
         /\ resp'.calls = <<"fedex", "onasset">>
         /\ resp'.req.onasset = "http_error")
        => LET req == resp'.req
               info == req.results[1]
               new == NewRows(statusHistory, statusHistory')
           IN  /\ resp'.code = 502
               /\ \E sid \in 1..Len(shipments') :
                     /\ shipments'[sid] = ShipmentRow(req.tracking_number, info.origin,
                                                      info.destination, info.status)
                     /\ \A i \in 1..Len(info.scanEvents) :
                           \E j \in 1..Len(statusHistory') :
                              /\ statusHistory'[j].shipment_id = sid
                              /\ statusHistory'[j].status = info.scanEvents[i].status
                              /\ statusHistory'[j].location = info.scanEvents[i].city
               /\ SubSeq(statusHistory', 1, Len(statusHistory)) = statusHistory
               /\ \A j \in 1..Len(new) :
                     \E i \in 1..Len(info.scanEvents) : new[j].status = info.scanEvents[i].status
               /\ UNCHANGED <<sensorData, alerts>>
      ]_vars

\* C10 witness: an ingestion answered 502 after the sensor-report call failed
\* left a Shipment created from the tracking result and a scan-event row.
C10_Witness ==
    /\ resp.route = "ingest"
    /\ resp.code = 502
    /\ resp.calls = <<"fedex", "onasset">>
    /\ resp.req.results[1].scanEvents # <<>>
    /\ Len(shipments) = 1
    /\ shipments[1].origin = "Memphis"
    /\ statusHistory # <<>>
    /\ Last(statusHistory).status = Status("Picked up")
    /\ sensorData = <<>>

\* C11: in every reachable state every TemperatureAlert row has alert_type
\* below_min or above_max, references a stored Shipment, and has a
\* SensorData row of the same shipment with the same temperature.
C11_AlertHasReading ==
    \A i \in 1..Len(alerts) :
        /\ alerts[i].alert_type \in {"below_min", "above_max"}
        /\ alerts[i].shipment_id \in 1..Len(shipments)
        /\ \E j \in 1..Len(sensorData) :
              /\ sensorData[j].shipment_id = alerts[i].shipment_id
              /\ sensorData[j].temperature = Some(alerts[i].temperature)

\* C11 witness: a sensor POST answered 201 has just raised an alert beside
\* one raised by an ingestion, one of each type, each with its reading.
C11_Witness ==
    /\ resp.route = "add_sensor_data"
    /\ resp.code = 201
    /\ Len(alerts) = 2
    /\ Len(sensorData) = 2
    /\ {alerts[1].alert_type, alerts[2].alert_type} = {"below_min", "above_max"}
    /\ Last(alerts).temperature = Val(resp.req.temperature)
    /\ Last(sensorData).temperature = resp.req.temperature
    /\ alerts[1].temperature # alerts[2].temperature

====
